---- MODULE Spec2Model ----
(***************************************************************************)
(* Multi-file search-result replacement: the replacement engine            *)
(* (parseDollars, _doReplaceInDocument, _doReplaceOnDisk,                  *)
(* _doReplaceInOneFile, performReplacements) and the SearchModel store.    *)
(*                                                                         *)
(* Text is a sequence of one-character strings.  LF and CR stand for the   *)
(* line feed and the carriage return.                                      *)
(***************************************************************************)
EXTENDS Integers, Sequences, FiniteSets, TLC

VARIABLES
    \* ---- parseDollars applied to one (replaceWith, match) pair
    dTemplate,      \* the replaceWith argument
    dMatch,         \* the match argument (regexp result array, group 0 first)
    dDone,          \* whether parseDollars has returned
    dOut,           \* its return value
    \* ---- the replacement engine
    results,        \* results argument: path -> [matches, collapsed, timestamp]
    replaceText,    \* replaceText argument
    options,        \* options argument: [forceFilesOpen, isRegexp]
    disk,           \* the file system: path -> [bytes, mtime]
    docs,           \* DocumentManager's open documents: path -> text or NoDoc
    currentDoc,     \* DocumentManager.getCurrentDocument(): a path or NoCurrentDoc
    batch,          \* master promise: "none" | "pending" | "resolved" | "rejected"
    pc,             \* per-file promise: "idle" | "opening" | "reading" |
                    \*                   "writing" | "resolved" | "rejected"
    variant,        \* per file: "none" | "document" | "disk" (the variant dispatched)
    readResult,     \* per file: what getDocumentText delivered, or NoRead
    pending,        \* per file: the newContents handed to file.write
    errors,         \* the aggregated error list: Seq([item, error])
    edits,          \* per file: the doc.replaceRange calls made, in call order
    pushed,         \* per file: the replacement texts pushed by the on-disk walk
    nExternal,      \* number of external modifications so far
    runsLeft,       \* number of performReplacements calls still to be made
    written,        \* the files a file.write of the engine has rewritten
    \* ---- the SearchModel store
    mResults,       \* this.results: path -> [matches, collapsed, timestamp]
    mKeys,          \* Object.keys(this.results): the paths in insertion order
    queryInfo,      \* this.queryInfo
    isReplace,      \* this.isReplace
    mReplaceText,   \* this.replaceText
    scope,          \* this.scope
    foundMaximum,   \* this.foundMaximum
    selectedEntry,  \* this._selectedEntry
    triggered,      \* the triggerHandler calls: [type, seen] or [type, arg]
    added,          \* the addResultMatches calls since the last clear()
    lastCall        \* the last call on the store: [op, ret]

dvars == <<dTemplate, dMatch, dDone, dOut>>
evars == <<results, replaceText, options, disk, docs, currentDoc, batch, pc,
           variant, readResult, pending, errors, edits, pushed, nExternal,
           runsLeft, written>>
svars == <<mResults, mKeys, queryInfo, isReplace, mReplaceText, scope, foundMaximum,
           selectedEntry, triggered, added, lastCall>>
vars == <<dvars, evars, svars>>

LF == "\n"
CR == "\r"
DOLLAR == "$"
AMP == "&"

(***************************************************************************)
(* Text helpers (JavaScript string primitives used by the source).         *)
(***************************************************************************)
\* String.prototype.slice(from, to) on 0-based offsets, to exclusive.
Slice(s, from, to) ==
    LET f == IF from > Len(s) THEN Len(s) ELSE from
        t == IF to > Len(s) THEN Len(s) ELSE to
    IN  IF t <= f THEN <<>> ELSE SubSeq(s, f + 1, t)

\* String.prototype.slice(from): to the end.
SliceFrom(s, from) == Slice(s, from, Len(s))

RECURSIVE Join(_)
\* Array.prototype.join(""): concatenation of a sequence of texts.
Join(parts) ==
    IF parts = <<>> THEN <<>> ELSE Head(parts) \o Join(Tail(parts))

(***************************************************************************)
(* parseDollars                                                            *)
(***************************************************************************)
Digits == {"0", "1", "2"}

DigitValue(c) == IF c = "0" THEN 0 ELSE IF c = "1" THEN 1 ELSE 2

\* A capture group that did not participate in the match (undefined in JS).
Undefined == <<"undefined">>

\* match[n] || "": group n of the regexp result array, "" when undefined.
GroupText(match, n) ==
    IF n + 1 \in DOMAIN match /\ match[n + 1] # Undefined
    THEN match[n + 1]
    ELSE <<>>

RECURSIVE DollarRun(_, _)
\* Length of the run of "$" starting at index i (1-based) of t: (\$+), greedy.
DollarRun(t, i) ==
    IF i <= Len(t) /\ t[i] = DOLLAR THEN 1 + DollarRun(t, i + 1) ELSE 0

\* Length of the token (\d{1,2}|&) at index j of t, 0 when there is none.
TokenLen(t, j) ==
    IF j > Len(t) THEN 0
    ELSE IF t[j] = AMP THEN 1
    ELSE IF t[j] \in Digits
         THEN IF j + 1 <= Len(t) /\ t[j + 1] \in Digits THEN 2 ELSE 1
    ELSE 0

\* parseInt(index, 10) of a token of one or two digits.
ParseInt(tok) ==
    IF Len(tok) = 1 THEN DigitValue(tok[1])
    ELSE 10 * DigitValue(tok[1]) + DigitValue(tok[2])

\* The callback without its parsedIndex !== 0 test: "$0" names group 0.
DollarCallback_SubstitutesZero(whole, dollars, index, match) ==
    IF Len(dollars) % 2 = 1
    THEN IF index = <<AMP>>
         THEN Tail(dollars) \o GroupText(match, 0)
         ELSE Tail(dollars) \o GroupText(match, ParseInt(index))
    ELSE whole

\* The replace callback: function (whole, dollars, index).
DollarCallback(whole, dollars, index, match) ==
    IF Len(dollars) % 2 = 1
    THEN IF index = <<AMP>>
         THEN Tail(dollars) \o GroupText(match, 0)
         ELSE IF ParseInt(index) # 0
              THEN Tail(dollars) \o GroupText(match, ParseInt(index))
              ELSE whole
    ELSE whole

RECURSIVE ExpandFrom(_, _, _)
\* replaceWith.replace(/(\$+)(\d{1,2}|&)/g, callback), scanning from index i.
ExpandFrom(t, i, match) ==
    IF i > Len(t) THEN <<>>
    ELSE IF t[i] # DOLLAR THEN <<t[i]>> \o ExpandFrom(t, i + 1, match)
    ELSE LET k == DollarRun(t, i)
             n == TokenLen(t, i + k)
         IN  IF n = 0
             THEN SubSeq(t, i, i + k - 1) \o ExpandFrom(t, i + k, match)
             ELSE DollarCallback(SubSeq(t, i, i + k + n - 1),
                                 SubSeq(t, i, i + k - 1),
                                 SubSeq(t, i + k, i + k + n - 1), match)
                  \o ExpandFrom(t, i + k + n, match)

RECURSIVE Unescape(_)
\* replaceWith.replace(/\$\$/g, "$"): leftmost pairs, left to right.
Unescape(t) ==
    IF Len(t) = 0 THEN <<>>
    ELSE IF Len(t) >= 2 /\ t[1] = DOLLAR /\ t[2] = DOLLAR
         THEN <<DOLLAR>> \o Unescape(SubSeq(t, 3, Len(t)))
    ELSE <<t[1]>> \o Unescape(Tail(t))

parseDollars(replaceWith, match) ==
    Unescape(ExpandFrom(replaceWith, 1, match))

(***************************************************************************)
(* Collaborators: the text buffer (Document / CodeMirror), the file read   *)
(* path (DocumentManager.getDocumentText) and path comparison.             *)
(***************************************************************************)
\* getOpenDocumentForPath(path) when the path is not open.
NoDoc == <<"no document">>
\* getCurrentDocument() when no document is current.
NoCurrentDoc == "null"
NoRead == [none |-> TRUE]

RECURSIVE CountLF(_)
CountLF(s) ==
    IF s = <<>> THEN 0 ELSE (IF Head(s) = LF THEN 1 ELSE 0) + CountLF(Tail(s))

RECURSIVE LastLF(_, _)
\* The largest index i <= n with s[i] = LF, 0 when there is none.
LastLF(s, n) ==
    IF n = 0 THEN 0 ELSE IF s[n] = LF THEN n ELSE LastLF(s, n - 1)

\* The {line, ch} position of a 0-based offset of a text.
PosOf(text, offset) ==
    [line |-> CountLF(Slice(text, 0, offset)), ch |-> offset - LastLF(text, offset)]

RECURSIVE LineStart(_, _, _)
\* 0-based offset of the first character of line `line`, scanning from offset i;
\* a line past the end is clipped to the end of the text.
LineStart(text, line, i) ==
    IF line = 0 THEN i
    ELSE IF i >= Len(text) THEN Len(text)
    ELSE IF text[i + 1] = LF THEN LineStart(text, line - 1, i + 1)
    ELSE LineStart(text, line, i + 1)

RECURSIVE LineEnd(_, _)
\* 0-based offset of the end of the line that contains offset i.
LineEnd(text, i) ==
    IF i >= Len(text) THEN Len(text)
    ELSE IF text[i + 1] = LF THEN i
    ELSE LineEnd(text, i + 1)

\* The offset a {line, ch} position designates in the buffer's current text
\* (clipped to the line, as the buffer clips positions).
IndexOfPos(text, pos) ==
    LET ls == LineStart(text, pos.line, 0)
        le == LineEnd(text, ls)
    IN  IF ls + pos.ch > le THEN le ELSE ls + pos.ch

\* doc.replaceRange(text, start, end) on the buffer's current text.
ReplaceRange(buffer, text, start, end) ==
    Slice(buffer, 0, IndexOfPos(buffer, start)) \o text
        \o SliceFrom(buffer, IndexOfPos(buffer, end))

\* CodeMirror.cmpPos(a, b): negative, zero or positive.
cmpPos(a, b) ==
    IF a.line # b.line THEN a.line - b.line ELSE a.ch - b.ch

RECURSIVE NormalizeText(_)
\* The read path's canonical form: every CR LF pair becomes LF.
NormalizeText(bytes) ==
    IF bytes = <<>> THEN <<>>
    ELSE IF Len(bytes) >= 2 /\ bytes[1] = CR /\ bytes[2] = LF
         THEN <<LF>> \o NormalizeText(SubSeq(bytes, 3, Len(bytes)))
    ELSE <<bytes[1]>> \o NormalizeText(Tail(bytes))

HasCRLF(bytes) ==
    \E i \in 1..(Len(bytes) - 1) : bytes[i] = CR /\ bytes[i + 1] = LF

HasBareLF(bytes) ==
    \E i \in 1..Len(bytes) : bytes[i] = LF /\ (i = 1 \/ bytes[i - 1] # CR)

LINE_ENDINGS_CRLF == "CRLF"
LINE_ENDINGS_LF == "LF"
NoLineEndings == "null"

\* The detected line-ending convention of a file's bytes.
SniffLineEndings(bytes) ==
    IF HasCRLF(bytes) /\ ~HasBareLF(bytes) THEN LINE_ENDINGS_CRLF
    ELSE IF HasBareLF(bytes) /\ ~HasCRLF(bytes) THEN LINE_ENDINGS_LF
    ELSE NoLineEndings

\* DocumentManager.getDocumentText(file, true) on a file that is not open:
\* (contents, timestamp, lineEndings).
getDocumentText(file) ==
    [contents |-> NormalizeText(file.bytes),
     timestamp |-> file.mtime,
     lineEndings |-> SniffLineEndings(file.bytes)]

(***************************************************************************)
(* _doReplaceInDocument                                                    *)
(***************************************************************************)
\* Mutant of Replacement: the $-expressions are expanded for every query.
Replacement_AlwaysExpands(rText, isRegexp, match) ==
    parseDollars(rText, match.result)

\* The text inserted for one match: isRegexp ? parseDollars(...) : replaceText.
Replacement(rText, isRegexp, match) ==
    IF isRegexp THEN parseDollars(rText, match.result) ELSE rText

RECURSIVE InsertSorted(_, _)
InsertSorted(m, sorted) ==
    IF sorted = <<>> THEN <<m>>
    ELSE IF cmpPos(Head(sorted).start, m.start) < 0
         THEN <<m>> \o sorted
         ELSE <<Head(sorted)>> \o InsertSorted(m, Tail(sorted))

RECURSIVE SortReverse(_)
\* matchInfo.matches.sort(function (m1, m2) { return cmpPos(m2.start, m1.start); }):
\* reverse document order.
SortReverse(matches) ==
    IF matches = <<>> THEN <<>>
    ELSE InsertSorted(Head(matches), SortReverse(Tail(matches)))

RECURSIVE ApplyEdits(_, _, _, _)
\* matchInfo.matches.forEach(...) inside doc.batchOperation: the buffer after
\* the replaceRange calls for the checked matches, in the order given.
ApplyEdits(buffer, matches, rText, isRegexp) ==
    IF matches = <<>> THEN buffer
    ELSE LET m == Head(matches)
             next == IF m.isChecked
                     THEN ReplaceRange(buffer, Replacement(rText, isRegexp, m),
                                       m.start, m.end)
                     ELSE buffer
         IN  ApplyEdits(next, Tail(matches), rText, isRegexp)

RECURSIVE EditCalls(_, _, _)
\* The replaceRange calls made, in call order: [text, start, end].
EditCalls(matches, rText, isRegexp) ==
    IF matches = <<>> THEN <<>>
    ELSE LET m == Head(matches)
         IN  (IF m.isChecked
              THEN <<[text |-> Replacement(rText, isRegexp, m),
                      start |-> m.start, end |-> m.end]>>
              ELSE <<>>)
             \o EditCalls(Tail(matches), rText, isRegexp)

\* Mutant of DocumentOrder: the matches are walked as stored.
DocumentOrder_AsStored(matches) == matches

\* The order in which _doReplaceInDocument walks the matches.
DocumentOrder(matches) == SortReverse(matches)

\* _doReplaceInDocument(doc, matchInfo, replaceText, isRegexp): the buffer after.
doReplaceInDocument(buffer, matches, rText, isRegexp) ==
    ApplyEdits(buffer, DocumentOrder(matches), rText, isRegexp)

(***************************************************************************)
(* _doReplaceOnDisk                                                        *)
(***************************************************************************)
ERROR_FILE_CHANGED == "fileChanged"

\* Mutant of TimestampDiffers: the timestamps are never compared.
TimestampDiffers_Never(timestamp, captured) == FALSE

\* timestamp.getTime() !== matchInfo.timestamp.getTime()
TimestampDiffers(timestamp, captured) == timestamp # captured

\* The order in which _doReplaceOnDisk walks the matches: as stored.
DiskOrder(matches) == matches

RECURSIVE WalkMatches(_, _, _, _, _)
\* matchInfo.matches.forEach(...) followed by result.push(contents.slice(lastIndex)):
\* the segments pushed on `result`.
WalkMatches(contents, matches, lastIndex, rText, isRegexp) ==
    IF matches = <<>> THEN <<SliceFrom(contents, lastIndex)>>
    ELSE LET m == Head(matches)
         IN  IF m.isChecked
             THEN <<Slice(contents, lastIndex, m.startOffset),
                    Replacement(rText, isRegexp, m)>>
                  \o WalkMatches(contents, Tail(matches), m.endOffset, rText, isRegexp)
             ELSE WalkMatches(contents, Tail(matches), lastIndex, rText, isRegexp)

\* Mutant of NewContents: the tail after the last checked match is not pushed.
NewContents_NoTail(contents, matches, rText, isRegexp) ==
    LET segs == WalkMatches(contents, matches, 0, rText, isRegexp)
    IN  Join(SubSeq(segs, 1, Len(segs) - 1))

\* newContents = result.join("")
NewContents(contents, matches, rText, isRegexp) ==
    Join(WalkMatches(contents, DiskOrder(matches), 0, rText, isRegexp))

RECURSIVE ReplaceLF(_)
\* newContents.replace(/\n/g, "\r\n")
ReplaceLF(s) ==
    IF s = <<>> THEN <<>>
    ELSE (IF Head(s) = LF THEN <<CR, LF>> ELSE <<Head(s)>>) \o ReplaceLF(Tail(s))

\* Mutant of WithLineEndings: the line endings are never converted.
WithLineEndings_Never(newContents, lineEndings) == newContents

\* The text handed to file.write.
WithLineEndings(newContents, lineEndings) ==
    IF lineEndings = LINE_ENDINGS_CRLF THEN ReplaceLF(newContents) ELSE newContents

RECURSIVE PushedTexts(_, _, _)
\* The replacement texts pushed by the walk, in push order.
PushedTexts(matches, rText, isRegexp) ==
    IF matches = <<>> THEN <<>>
    ELSE (IF Head(matches).isChecked
          THEN <<Replacement(rText, isRegexp, Head(matches))>> ELSE <<>>)
         \o PushedTexts(Tail(matches), rText, isRegexp)

\* Mutant of doReplaceOnDisk: on a timestamp mismatch the handler returns the
\* error instead of a rejected promise, so the operation resolves.
doReplaceOnDisk_ReturnsError(r, matchInfo, rText, isRegexp) ==
    IF TimestampDiffers(r.timestamp, matchInfo.timestamp)
    THEN [state |-> "resolved", error |-> "", write |-> <<>>, pushed |-> <<>>]
    ELSE [state |-> "writing", error |-> "",
          write |-> WithLineEndings(
                        NewContents(r.contents, matchInfo.matches, rText, isRegexp),
                        r.lineEndings),
          pushed |-> PushedTexts(DiskOrder(matchInfo.matches), rText, isRegexp)]

\* The success handler of getDocumentText in _doReplaceOnDisk, given what the
\* read delivered: the promise's next state, the error it rejects with, the
\* text it hands to file.write and the replacement texts it pushed.
doReplaceOnDisk(r, matchInfo, rText, isRegexp) ==
    IF TimestampDiffers(r.timestamp, matchInfo.timestamp)
    THEN [state |-> "rejected", error |-> ERROR_FILE_CHANGED,
          write |-> <<>>, pushed |-> <<>>]
    ELSE [state |-> "writing", error |-> "",
          write |-> WithLineEndings(
                        NewContents(r.contents, matchInfo.matches, rText, isRegexp),
                        r.lineEndings),
          pushed |-> PushedTexts(DiskOrder(matchInfo.matches), rText, isRegexp)]

\* hasCheckedMatches(result)
hasCheckedMatches(result) ==
    \E i \in 1..Len(result.matches) : result.matches[i].isChecked

(***************************************************************************)
(* Path ordering and the active-document choice of performReplacements.    *)
(***************************************************************************)
AllPaths == {"/a.js", "/B.js", "/lib/a.js"}

\* A document that is open but is no key of the results.
OtherPath == "/other.js"

\* FileUtils.comparePaths: case-insensitive, a directory's files before its
\* sub-directories.  The rank of each path of AllPaths in that order.
PathRank(path) ==
    CASE path = "/a.js" -> 1
      [] path = "/B.js" -> 2
      [] path = "/lib/a.js" -> 3
      [] OTHER -> 4

comparePaths(p1, p2) == PathRank(p1) - PathRank(p2)

\* Mutant of FirstCheckedPath: the first path of the sorted keys, whether or
\* not it has a checked match.
FirstCheckedPath_AnyPath(res) ==
    {p \in DOMAIN res : \A q \in DOMAIN res : comparePaths(p, q) <= 0}

\* _.find(Object.keys(results).sort(FileUtils.comparePaths), hasCheckedMatches):
\* the set holding the first such path, empty when there is none.
FirstCheckedPath(res) ==
    {p \in DOMAIN res :
        /\ hasCheckedMatches(res[p])
        /\ \A q \in DOMAIN res :
              hasCheckedMatches(res[q]) => comparePaths(p, q) <= 0}

\* The .done handler of performReplacements: the current document after it.
SelectCurrentDocument(res, dcs, cur, opts) ==
    IF opts.forceFilesOpen
    THEN IF \/ cur = NoCurrentDoc
            \/ cur \notin DOMAIN res
            \/ ~hasCheckedMatches(res[cur])
         THEN IF \E p \in FirstCheckedPath(res) : dcs[p] # NoDoc
              THEN CHOOSE p \in FirstCheckedPath(res) : TRUE
              ELSE cur
         ELSE cur
    ELSE cur

(***************************************************************************)
(* Inputs.                                                                 *)
(***************************************************************************)
MaxMatches == 2
MaxExternal == 1

READ_ERROR == "NotReadable"
WRITE_ERROR == "NotWritable"
OPEN_ERROR == "NotFound"

\* The bytes of a file at search time: in the LF convention, in the CRLF
\* convention, and with both line endings.
FileBytes ==
    {<<"a", LF, "b", "c">>, <<"a", CR, LF, "b", "c">>, <<"a", CR, LF, "b", LF>>}

\* A match of the search over `text` (the normalized contents) at [s, e):
\* group 0 is the matched text, group 1 its first character.
MkMatch(text, s, e, chk) ==
    [start |-> PosOf(text, s), end |-> PosOf(text, e),
     startOffset |-> s, endOffset |-> e,
     result |-> <<Slice(text, s, e), Slice(text, s, s + 1)>>,
     isChecked |-> chk]

MatchesOf(text) ==
    {MkMatch(text, s, e, chk) :
        s \in 0..(Len(text) - 1), e \in 1..Len(text), chk \in BOOLEAN}

Disjoint(m1, m2) ==
    m1.endOffset <= m2.startOffset \/ m2.endOffset <= m1.startOffset

RECURSIVE MatchLists(_, _)
\* Every list of at most n non-empty, pairwise non-overlapping matches, in any order.
MatchLists(text, n) ==
    IF n = 0 THEN {<<>>}
    ELSE LET shorter == MatchLists(text, n - 1)
         IN  shorter \cup
             {Append(l, m) : <<l, m>> \in
                 {x \in shorter \X MatchesOf(text) :
                     /\ Len(x[1]) = n - 1
                     /\ x[2].startOffset < x[2].endOffset
                     /\ \A i \in 1..Len(x[1]) : Disjoint(x[1][i], x[2])}}

ReplaceTexts ==
    {<<>>, <<"x", "y">>, <<DOLLAR, "1">>, <<DOLLAR, AMP, DOLLAR, DOLLAR>>,
     <<"x", LF>>, <<CR, LF>>}

ConstFn(S, v) == [x \in S |-> v]

\* The state after a search over the files `keys`, before performReplacements.
InitEngine(keys, bytesOf, matchesOf, openSet, rText, opts, cur, runs) ==
    /\ results = [p \in keys |->
                    [matches |-> matchesOf[p], collapsed |-> FALSE, timestamp |-> 1]]
    /\ replaceText = rText
    /\ options = opts
    /\ disk = [p \in keys |-> [bytes |-> bytesOf[p], mtime |-> 1]]
    /\ docs = [p \in AllPaths \cup {OtherPath} |->
                 IF p = OtherPath THEN <<"o">>
                 ELSE IF p \in openSet THEN NormalizeText(bytesOf[p]) ELSE NoDoc]
    /\ currentDoc = cur
    /\ batch = "none"
    /\ pc = ConstFn(keys, "idle")
    /\ variant = ConstFn(keys, "none")
    /\ readResult = ConstFn(keys, NoRead)
    /\ pending = ConstFn(keys, <<>>)
    /\ errors = <<>>
    /\ edits = ConstFn(keys, <<>>)
    /\ pushed = ConstFn(keys, <<>>)
    /\ nExternal = 0
    /\ runsLeft = runs
    /\ written = {}

DollarsIdle ==
    /\ dTemplate = <<>>
    /\ dMatch = <<>>
    /\ dDone = FALSE
    /\ dOut = <<>>

\* The store after new SearchModel(): the constructor has called clear().
InitStore ==
    /\ mResults = <<>>
    /\ mKeys = <<>>
    /\ queryInfo = "null"
    /\ isReplace = FALSE
    /\ mReplaceText = "null"
    /\ scope = "null"
    /\ foundMaximum = FALSE
    /\ selectedEntry = "undefined"
    /\ triggered = <<>>
    /\ added = <<>>
    /\ lastCall = [op |-> "new", ret |-> "undefined"]

OneFile == "/a.js"

\* One file, every input of its replacement.
InitOneFile ==
    /\ DollarsIdle
    /\ InitStore
    /\ \E bytes \in FileBytes, open \in BOOLEAN, rText \in ReplaceTexts,
          ffo \in BOOLEAN, rx \in BOOLEAN :
         \E ms \in MatchLists(NormalizeText(bytes), MaxMatches) :
            InitEngine({OneFile}, ConstFn({OneFile}, bytes), ConstFn({OneFile}, ms),
                       IF open THEN {OneFile} ELSE {}, rText,
                       [forceFilesOpen |-> ffo, isRegexp |-> rx], NoCurrentDoc, 1)

(***************************************************************************)
(* The replacement engine: performReplacements and the completions of the  *)
(* per-file operations it dispatches.                                      *)
(***************************************************************************)
\* Mutant of Keys: only the files with a checked match are dispatched.
Keys_WithCheckedMatches == {p \in DOMAIN results : hasCheckedMatches(results[p])}

Keys == DOMAIN results

Settled(state) == state \in {"resolved", "rejected"}

\* Mutant of Dispatch: without forceFilesOpen an open document is not looked at.
Dispatch_IgnoresOpenDocument(doc, opts) ==
    IF opts.forceFilesOpen /\ doc = NoDoc THEN "opening"
    ELSE IF opts.forceFilesOpen THEN "document"
    ELSE "disk"

\* _doReplaceInOneFile's choice for a path, from the open-document lookup at
\* dispatch: "opening" (forceFilesOpen, not open), "document" (open), "disk".
Dispatch(doc, opts) ==
    IF opts.forceFilesOpen /\ doc = NoDoc THEN "opening"
    ELSE IF doc # NoDoc THEN "document"
    ELSE "disk"

\* Async.doInParallel_aggregateErrors: the master promise settles with the last
\* per-file promise; its .done handler then picks the current document.
Aggregate ==
    IF \A p \in Keys : Settled(pc'[p])
    THEN /\ batch' = IF errors' = <<>> THEN "resolved" ELSE "rejected"
         /\ currentDoc' = IF errors' = <<>>
                          THEN SelectCurrentDocument(results', docs', currentDoc, options)
                          ELSE currentDoc
    ELSE /\ batch' = "pending"
         /\ currentDoc' = currentDoc

\* _doReplaceInDocument on the open document of path p, whose buffer is `buffer`.
ReplaceInDocument(p, buffer) ==
    /\ results' = [results EXCEPT ![p].matches = DocumentOrder(@)]
    /\ docs' = [docs EXCEPT ![p] =
                  doReplaceInDocument(buffer, results[p].matches, replaceText,
                                      options.isRegexp)]
    /\ edits' = [edits EXCEPT ![p] =
                   EditCalls(DocumentOrder(results[p].matches), replaceText,
                             options.isRegexp)]

\* performReplacements(results, replaceText, options): every key is dispatched
\* in turn; an open document is replaced in at once, the other files start
\* their open or read.
performReplacements ==
    /\ batch # "pending"
    /\ runsLeft > 0
    /\ runsLeft' = runsLeft - 1
    /\ LET how == [p \in Keys |-> Dispatch(docs[p], options)]
       IN  /\ variant' = [p \in Keys |-> IF how[p] = "disk" THEN "disk" ELSE "document"]
           /\ pc' = [p \in Keys |->
                       CASE how[p] = "opening" -> "opening"
                         [] how[p] = "document" -> "resolved"
                         [] OTHER -> "reading"]
           /\ results' = [p \in Keys |->
                            IF how[p] = "document"
                            THEN [results[p] EXCEPT !.matches = DocumentOrder(@)]
                            ELSE results[p]]
           /\ docs' = [p \in DOMAIN docs |->
                         IF p \in Keys /\ how[p] = "document"
                         THEN doReplaceInDocument(docs[p], results[p].matches,
                                                  replaceText, options.isRegexp)
                         ELSE docs[p]]
           /\ edits' = [p \in Keys |->
                          IF how[p] = "document"
                          THEN EditCalls(DocumentOrder(results[p].matches),
                                         replaceText, options.isRegexp)
                          ELSE <<>>]
    /\ readResult' = [p \in Keys |-> NoRead]
    /\ pending' = [p \in Keys |-> <<>>]
    /\ pushed' = [p \in Keys |-> <<>>]
    /\ errors' = <<>>
    /\ Aggregate
    /\ UNCHANGED <<replaceText, options, disk, nExternal, written>>
    /\ UNCHANGED <<dvars, svars>>

\* DocumentManager.getDocumentForPath(p) resolves: the new document holds the
\* file's text, and _doReplaceInDocument runs on it.
OpenDone(p) ==
    /\ pc[p] = "opening"
    /\ ReplaceInDocument(p, NormalizeText(disk[p].bytes))
    /\ pc' = [pc EXCEPT ![p] = "resolved"]
    /\ errors' = errors
    /\ Aggregate
    /\ UNCHANGED <<replaceText, options, disk, variant, readResult, pending, pushed,
                   nExternal>>
    /\ UNCHANGED <<runsLeft, written>>
    /\ UNCHANGED <<dvars, svars>>

Reject(p, error) ==
    /\ pc' = [pc EXCEPT ![p] = "rejected"]
    /\ errors' = Append(errors, [item |-> p, error |-> error])

\* DocumentManager.getDocumentForPath(p) fails.
OpenFail(p) ==
    /\ pc[p] = "opening"
    /\ Reject(p, OPEN_ERROR)
    /\ Aggregate
    /\ UNCHANGED <<results, replaceText, options, disk, docs, variant, readResult,
                   pending, edits, pushed, nExternal>>
    /\ UNCHANGED <<runsLeft, written>>
    /\ UNCHANGED <<dvars, svars>>

\* getDocumentText resolves and the success handler of _doReplaceOnDisk runs:
\* the timestamp check, the walk over the matches, the line endings, file.write.
ReadDone(p) ==
    /\ pc[p] = "reading"
    /\ LET r == getDocumentText(disk[p])
           h == doReplaceOnDisk(r, results[p], replaceText, options.isRegexp)
       IN  /\ readResult' = [readResult EXCEPT ![p] = r]
           /\ pc' = [pc EXCEPT ![p] = h.state]
           /\ errors' = IF h.state = "rejected"
                        THEN Append(errors, [item |-> p, error |-> h.error])
                        ELSE errors
           /\ pending' = [pending EXCEPT ![p] = h.write]
           /\ pushed' = [pushed EXCEPT ![p] = h.pushed]
    /\ Aggregate
    /\ UNCHANGED <<results, replaceText, options, disk, docs, variant, edits, nExternal>>
    /\ UNCHANGED <<runsLeft, written>>
    /\ UNCHANGED <<dvars, svars>>

\* getDocumentText fails.
ReadFail(p) ==
    /\ pc[p] = "reading"
    /\ Reject(p, READ_ERROR)
    /\ Aggregate
    /\ UNCHANGED <<results, replaceText, options, disk, docs, variant, readResult,
                   pending, edits, pushed, nExternal>>
    /\ UNCHANGED <<runsLeft, written>>
    /\ UNCHANGED <<dvars, svars>>

\* Mutant of WriteDone: the engine stores the written file's new modification
\* time as the entry's timestamp.
WriteDone_RefreshesTimestamp(p) ==
    /\ pc[p] = "writing"
    /\ disk' = [disk EXCEPT ![p] = [bytes |-> pending[p], mtime |-> @.mtime + 1]]
    /\ results' = [results EXCEPT ![p].timestamp = disk[p].mtime + 1]
    /\ pc' = [pc EXCEPT ![p] = "resolved"]
    /\ errors' = errors
    /\ Aggregate
    /\ written' = written \cup {p}
    /\ UNCHANGED <<replaceText, options, docs, variant, readResult, pending,
                   edits, pushed, nExternal, runsLeft>>
    /\ UNCHANGED <<dvars, svars>>

\* file.write(newContents) succeeds: the file holds the new contents, with a
\* new modification time.
WriteDone(p) ==
    /\ pc[p] = "writing"
    /\ disk' = [disk EXCEPT ![p] = [bytes |-> pending[p], mtime |-> @.mtime + 1]]
    /\ pc' = [pc EXCEPT ![p] = "resolved"]
    /\ errors' = errors
    /\ Aggregate
    /\ written' = written \cup {p}
    /\ UNCHANGED <<results, replaceText, options, docs, variant, readResult, pending,
                   edits, pushed, nExternal, runsLeft>>
    /\ UNCHANGED <<dvars, svars>>

\* file.write fails.
WriteFail(p) ==
    /\ pc[p] = "writing"
    /\ Reject(p, WRITE_ERROR)
    /\ Aggregate
    /\ UNCHANGED <<results, replaceText, options, disk, docs, variant, readResult,
                   pending, edits, pushed, nExternal>>
    /\ UNCHANGED <<runsLeft, written>>
    /\ UNCHANGED <<dvars, svars>>

\* Another program rewrites the file: new bytes, new modification time.
ExternalModify(p) ==
    /\ nExternal < MaxExternal
    /\ nExternal' = nExternal + 1
    /\ disk' = [disk EXCEPT ![p] = [bytes |-> <<"z">> \o @.bytes, mtime |-> @.mtime + 1]]
    /\ UNCHANGED <<results, replaceText, options, docs, currentDoc, batch, pc, variant,
                   readResult, pending, errors, edits, pushed>>
    /\ UNCHANGED <<runsLeft, written>>
    /\ UNCHANGED <<dvars, svars>>

NextEngine ==
    \/ performReplacements
    \/ \E p \in Keys : OpenDone(p)
    \/ \E p \in Keys : OpenFail(p)
    \/ \E p \in Keys : ReadDone(p)
    \/ \E p \in Keys : ReadFail(p)
    \/ \E p \in Keys : WriteDone(p)
    \/ \E p \in Keys : WriteFail(p)
    \/ \E p \in Keys : ExternalModify(p)

SpecOneFile == InitOneFile /\ [][NextEngine]_vars

(***************************************************************************)
(* A batch over several files.                                             *)
(***************************************************************************)
BatchBytes == <<"a", LF, "b", "c">>

\* The match lists of a file of the batch: one checked match, one unchecked
\* match, two checked matches stored last first.
BatchMatchLists ==
    LET text == NormalizeText(BatchBytes)
    IN  {<<MkMatch(text, 0, 1, TRUE)>>,
         <<MkMatch(text, 0, 1, FALSE)>>,
         <<MkMatch(text, 2, 3, TRUE), MkMatch(text, 0, 1, TRUE)>>}

BatchReplaceTexts == {<<"x", "y">>, <<DOLLAR, "1">>}

InitBatch ==
    /\ DollarsIdle
    /\ InitStore
    /\ \E ms \in [AllPaths -> BatchMatchLists], openSet \in SUBSET AllPaths,
          rText \in BatchReplaceTexts, ffo \in BOOLEAN :
         \E cur \in {NoCurrentDoc, OtherPath} \cup openSet :
            InitEngine(AllPaths, ConstFn(AllPaths, BatchBytes), ms, openSet, rText,
                       [forceFilesOpen |-> ffo, isRegexp |-> FALSE], cur, 1)

Spec == InitBatch /\ [][NextEngine]_vars

(***************************************************************************)
(* parseDollars on its own: every template and match of the bounded sets.  *)
(***************************************************************************)
MaxTemplateLen == 4

TemplateChars == {DOLLAR, AMP, "0", "1", "a"}

RECURSIVE Texts(_, _)
\* Every text of at most n characters of the set chars.
Texts(chars, n) ==
    IF n = 0 THEN {<<>>}
    ELSE LET shorter == Texts(chars, n - 1)
         IN  shorter \cup {Append(t, c) : t \in shorter, c \in chars}

\* Regexp result arrays: group 0 (the whole match) and group 1, which may not
\* have participated; captured text may hold "$".
DollarMatches ==
    {<<<<"a", "b">>, <<"b">>>>,
     <<<<"a", "b">>, Undefined>>,
     <<<<"a", DOLLAR>>, <<DOLLAR>>>>,
     <<<<DOLLAR, DOLLAR, "a">>, <<DOLLAR, DOLLAR>>>>,
     <<<<"a">>, <<>>>>}

EngineIdle == InitEngine({}, <<>>, <<>>, {}, <<>>,
                         [forceFilesOpen |-> FALSE, isRegexp |-> TRUE], NoCurrentDoc, 0)

InitDollars ==
    /\ dTemplate \in Texts(TemplateChars, MaxTemplateLen)
    /\ dMatch \in DollarMatches
    /\ dDone = FALSE
    /\ dOut = <<>>
    /\ EngineIdle
    /\ InitStore

\* A call of parseDollars(replaceWith, match).
CallParseDollars ==
    /\ ~dDone
    /\ dDone' = TRUE
    /\ dOut' = parseDollars(dTemplate, dMatch)
    /\ UNCHANGED <<dTemplate, dMatch>>
    /\ UNCHANGED <<evars, svars>>

NextDollars == CallParseDollars

SpecDollars == InitDollars /\ [][NextDollars]_vars

(***************************************************************************)
(* Properties of parseDollars (checked under SpecDollars).                 *)
(***************************************************************************)
RECURSIVE Dollars(_)
\* A text of n "$" characters.
Dollars(n) == IF n = 0 THEN <<>> ELSE <<DOLLAR>> \o Dollars(n - 1)

\* The tokens that name a group: "&" and the numbers n >= 1 of one or two digits.
IsGroupToken(tok) ==
    \/ tok = <<AMP>>
    \/ /\ Len(tok) \in {1, 2}
       /\ \A i \in 1..Len(tok) : tok[i] \in Digits
       /\ ParseInt(tok) >= 1

\* The text captured by the group a token names, exactly as captured: empty
\* for a group that does not exist or did not participate.
Captured(match, tok) ==
    LET n == IF tok = <<AMP>> THEN 0 ELSE ParseInt(tok)
    IN  IF n + 1 > Len(match) THEN <<>>
        ELSE IF match[n + 1] = Undefined THEN <<>> ELSE match[n + 1]

\* The template is a run of k >= 1 "$" followed by a group token and nothing else.
RunAndToken(t) ==
    /\ DollarRun(t, 1) >= 1
    /\ IsGroupToken(SubSeq(t, DollarRun(t, 1) + 1, Len(t)))

\* C8: for a template made of a run of k >= 1 "$" and a group token, parseDollars
\* returns (k-1)/2 "$" followed by the group's text when k is odd, and k/2 "$"
\* followed by the token unchanged when k is even.
C8_RunParity ==
    (dDone /\ RunAndToken(dTemplate)) =>
        LET k == DollarRun(dTemplate, 1)
            tok == SubSeq(dTemplate, k + 1, Len(dTemplate))
        IN  dOut = IF k % 2 = 1
                   THEN Dollars((k - 1) \div 2) \o Captured(dMatch, tok)
                   ELSE Dollars(k \div 2) \o tok

\* C8 restricted to groups whose captured text holds no "$$" pair.
C8_RunParityNoPair ==
    (dDone /\ RunAndToken(dTemplate)
        /\ \A g \in 1..Len(dMatch) : Unescape(dMatch[g]) = dMatch[g])
    => C8_RunParity

PlainText(t) == \A i \in 1..Len(t) : t[i] = "a"

\* C9: an unescaped "$n" (n >= 1) or "$&" standing between plain text is replaced
\* by the group's text exactly as captured (empty for a group that did not
\* participate or does not exist), whatever the captured text holds.
C9_GroupTextVerbatim ==
    dDone =>
        \A i \in 1..Len(dTemplate), j \in 1..Len(dTemplate) :
            (/\ i < j
             /\ dTemplate[i] = DOLLAR
             /\ PlainText(SubSeq(dTemplate, 1, i - 1))
             /\ IsGroupToken(SubSeq(dTemplate, i + 1, j))
             /\ PlainText(SubSeq(dTemplate, j + 1, Len(dTemplate))))
            => dOut = SubSeq(dTemplate, 1, i - 1)
                        \o Captured(dMatch, SubSeq(dTemplate, i + 1, j))
                        \o SubSeq(dTemplate, j + 1, Len(dTemplate))

(***************************************************************************)
(* Properties of the single-file replacements (checked under SpecOneFile). *)
(***************************************************************************)
CheckedOf(matches) == {i \in 1..Len(matches) : matches[i].isChecked}

\* The matches are stored in ascending startOffset order.
Ascending(matches) ==
    \A i \in 1..Len(matches), j \in 1..Len(matches) :
        i < j => matches[i].startOffset < matches[j].startOffset

RECURSIVE RefFrom(_, _, _)
\* The reference text from offset i on: before each offset where a checked
\* range [from, to) starts stands that range's new text, and a character is
\* kept iff no checked range covers it.  ranges: a set of [from, to, text].
RefFrom(contents, i, ranges) ==
    IF i > Len(contents) THEN <<>>
    ELSE LET here == {r \in ranges : r.from = i}
             ins == IF here = {} THEN <<>> ELSE (CHOOSE r \in here : TRUE).text
             covered == \E r \in ranges : r.from <= i /\ i < r.to
             keep == IF i < Len(contents) /\ ~covered THEN <<contents[i + 1]>> ELSE <<>>
         IN  ins \o keep \o RefFrom(contents, i + 1, ranges)

\* The reference text of an on-disk replacement: the contents with the range
\* [startOffset, endOffset) of every checked match replaced.
RefOnDisk(contents, matches, rText, isRegexp) ==
    RefFrom(contents, 0,
            {[from |-> matches[i].startOffset, to |-> matches[i].endOffset,
              text |-> Replacement(rText, isRegexp, matches[i])] :
                i \in CheckedOf(matches)})

\* The reference text of an in-memory replacement: the buffer with the range
\* [start, end) of every checked match replaced.
RefInDocument(buffer, matches, rText, isRegexp) ==
    RefFrom(buffer, 0,
            {[from |-> IndexOfPos(buffer, matches[i].start),
              to |-> IndexOfPos(buffer, matches[i].end),
              text |-> Replacement(rText, isRegexp, matches[i])] :
                i \in CheckedOf(matches)})

\* The text handed to file.write is the reference text ref, in the file's
\* line-ending convention.
WritesReference(p, ref) ==
    IF readResult[p].lineEndings = LINE_ENDINGS_CRLF
    THEN NormalizeText(pending[p]) = ref
    ELSE pending[p] = ref

StaleRead(p) ==
    /\ readResult[p] # NoRead
    /\ readResult[p].timestamp # results[p].timestamp

\* C1: when the timestamp read differs from the captured one, the file's
\* operation is rejected with ERROR_FILE_CHANGED, nothing is handed to
\* file.write, and from then on the file's bytes change only by an external
\* modification.
C1_StaleFileUntouched ==
    /\ [](\A p \in Keys :
            StaleRead(p) =>
                /\ pc[p] = "rejected"
                /\ pending[p] = <<>>
                /\ \E i \in 1..Len(errors) :
                      errors[i] = [item |-> p, error |-> ERROR_FILE_CHANGED])
    /\ [][\A p \in Keys :
            (readResult'[p] # NoRead /\ readResult'[p].timestamp # results'[p].timestamp)
                => (disk'[p] = disk[p] \/ nExternal' # nExternal)]_vars

C1_Witness ==
    \E p \in Keys :
        /\ StaleRead(p)
        /\ pc[p] = "rejected"
        /\ Len(results[p].matches) = 2
        /\ CheckedOf(results[p].matches) # {}

\* C3: for non-overlapping matches stored in any order, the text written on
\* disk is the reference text (the one written for the ascending order).
C3_AnyStoredOrder ==
    \A p \in Keys :
        (variant[p] = "disk" /\ pc[p] \in {"writing", "resolved"})
        => WritesReference(p, RefOnDisk(readResult[p].contents, results[p].matches,
                                        replaceText, options.isRegexp))

\* C4: with a matching timestamp and the matches stored in ascending
\* startOffset order, the text written is the reference text; once written
\* (and not modified since) it is the file's content.
C4_AscendingWritesReference ==
    \A p \in Keys :
        (variant[p] = "disk" /\ pc[p] \in {"writing", "resolved"}
            /\ Ascending(results[p].matches))
        => /\ WritesReference(p, RefOnDisk(readResult[p].contents, results[p].matches,
                                           replaceText, options.isRegexp))
           /\ (pc[p] = "resolved" /\ nExternal = 0) => disk[p].bytes = pending[p]

C4_Witness ==
    \E p \in Keys :
        /\ variant[p] = "disk" /\ pc[p] = "resolved" /\ nExternal = 0
        /\ Len(results[p].matches) = 2
        /\ Ascending(results[p].matches)
        /\ results[p].matches[1].isChecked /\ ~results[p].matches[2].isChecked
        /\ results[p].matches[2].endOffset < Len(readResult[p].contents)
        /\ replaceText = <<"x", "y">>
        /\ disk[p].bytes = pending[p]

\* The start positions of the replaceRange calls are strictly descending.
DescendingEdits(calls) ==
    \A i \in 1..Len(calls), j \in 1..Len(calls) :
        i < j => cmpPos(calls[i].start, calls[j].start) > 0

\* C5: whatever the stored order, the in-memory replacement edits the checked
\* matches in strictly descending start order, leaves the buffer equal to the
\* original buffer with exactly the checked ranges replaced, and resolves.
C5_DocumentDescending ==
    [][\A p \in Keys :
        (~Settled(pc[p]) /\ Settled(pc'[p]) /\ variant'[p] = "document"
            /\ docs'[p] # NoDoc)
        => LET buffer == IF docs[p] # NoDoc THEN docs[p]
                         ELSE NormalizeText(disk[p].bytes)
           IN  /\ pc'[p] = "resolved"
               /\ docs'[p] = RefInDocument(buffer, results[p].matches, replaceText,
                                           options.isRegexp)
               /\ DescendingEdits(edits'[p])
               /\ Len(edits'[p]) = Cardinality(CheckedOf(results[p].matches))]_vars

\* Two checked edits were applied to a document, the first on the later line.
C5_Witness ==
    \E p \in Keys :
        /\ variant[p] = "document" /\ pc[p] = "resolved"
        /\ Len(edits[p]) = 2
        /\ edits[p][1].start.line > edits[p][2].start.line
        /\ Len(replaceText) = 2

\* C7: when the query is not a regexp, every text inserted by the in-memory
\* variant and every text pushed by the on-disk variant is replaceText itself.
C7_VerbatimWhenNotRegexp ==
    ~options.isRegexp =>
        \A p \in Keys :
            /\ \A i \in 1..Len(edits[p]) : edits[p][i].text = replaceText
            /\ \A i \in 1..Len(pushed[p]) : pushed[p][i] = replaceText
            /\ (variant[p] = "disk" /\ pc[p] \in {"writing", "resolved"})
                => Len(pushed[p]) = Cardinality(CheckedOf(results[p].matches))
            /\ (variant[p] = "document" /\ pc[p] = "resolved")
                => Len(edits[p]) = Cardinality(CheckedOf(results[p].matches))

C7_Witness ==
    /\ ~options.isRegexp
    /\ replaceText = <<DOLLAR, AMP, DOLLAR, DOLLAR>>
    /\ \E p \in Keys : Len(pushed[p]) = 2 /\ pc[p] = "resolved"

\* C10: with a matching timestamp and no checked match, the text handed to
\* file.write is the file's bytes as they were read, for a file in the LF or
\* in the CRLF convention, and the write leaves exactly that text in the file.
C10_ZeroCheckedRoundTrip ==
    [][\A p \in Keys :
        /\ (/\ pc[p] = "reading" /\ pc'[p] = "writing"
            /\ ~hasCheckedMatches(results[p])
            /\ SniffLineEndings(disk[p].bytes) \in {LINE_ENDINGS_LF, LINE_ENDINGS_CRLF})
           => pending'[p] = disk[p].bytes
        /\ (pc[p] = "writing" /\ pc'[p] = "resolved")
           => disk'[p].bytes = pending[p]]_vars

C10_Witness ==
    \E p \in Keys :
        /\ variant[p] = "disk" /\ pc[p] = "resolved" /\ nExternal = 0
        /\ Len(results[p].matches) = 2
        /\ ~hasCheckedMatches(results[p])
        /\ readResult[p].lineEndings = LINE_ENDINGS_CRLF
        /\ disk[p].bytes = <<"a", CR, LF, "b", "c">>

(***************************************************************************)
(* Properties of the batch (checked under Spec).                           *)
(***************************************************************************)
BatchSettled == batch \in {"resolved", "rejected"}

\* The files whose per-file operation failed.
Failed == {p \in Keys : pc[p] = "rejected"}

\* Every checked match of the file got its replacement: one replaceRange call
\* each in the open document, or one pushed text each in the written file.
Replaced(p) ==
    /\ pc[p] = "resolved"
    /\ variant[p] = "document" =>
          /\ docs[p] # NoDoc
          /\ Len(edits[p]) = Cardinality(CheckedOf(results[p].matches))
    /\ variant[p] = "disk" =>
          /\ Len(pushed[p]) = Cardinality(CheckedOf(results[p].matches))
          /\ disk[p].mtime > results[p].timestamp
          /\ nExternal = 0 => disk[p].bytes = pending[p]

C6_Dispatch ==
    /\ [](batch # "none" =>
            \A p \in Keys :
                /\ docs[p] # NoDoc =>
                      /\ variant[p] = "document" /\ pc[p] = "resolved"
                      /\ readResult[p] = NoRead /\ pending[p] = <<>>
                /\ options.forceFilesOpen =>
                      /\ variant[p] = "document"
                      /\ pc[p] \in {"opening", "resolved", "rejected"}
                      /\ readResult[p] = NoRead /\ pending[p] = <<>>
                      /\ pc[p] = "rejected" =>
                            /\ docs[p] = NoDoc
                            /\ \E i \in 1..Len(errors) :
                                  errors[i] = [item |-> p, error |-> OPEN_ERROR]
                /\ (~options.forceFilesOpen /\ docs[p] = NoDoc) => variant[p] = "disk")
    /\ [][\A p \in Keys :
            (options.forceFilesOpen \/ docs[p] # NoDoc)
                => (disk'[p] = disk[p] \/ nExternal' # nExternal)]_vars

\* With forceFilesOpen, one file failed to open and another was opened and
\* replaced in memory.
C6_Witness ==
    /\ options.forceFilesOpen
    /\ \E p \in Keys, q \in Keys :
          /\ pc[p] = "rejected" /\ docs[p] = NoDoc
          /\ pc[q] = "resolved" /\ Len(edits[q]) = 2
          /\ docs[q] # NormalizeText(BatchBytes)

(***************************************************************************)
(* "$0" and "$00" (checked under SpecDollars).                             *)
(***************************************************************************)
\* The template is an odd run of "$" followed by "0" or "00" and nothing else.
OddRunAndZero(t) ==
    /\ DollarRun(t, 1) % 2 = 1
    /\ SubSeq(t, DollarRun(t, 1) + 1, Len(t)) \in {<<"0">>, <<"0", "0">>}

\* C19: for a template made of an odd run of k "$" followed by "0" or "00",
\* parseDollars inserts no capture text, whatever the match: it returns the
\* (k+1)/2 "$" left by the "$$" pass followed by the zero token, so "$0" gives
\* "$0" and "$00" gives "$00".
C19_ZeroNeverSubstituted ==
    (dDone /\ OddRunAndZero(dTemplate)) =>
        LET k == DollarRun(dTemplate, 1)
        IN  dOut = Dollars((k + 1) \div 2) \o SubSeq(dTemplate, k + 1, Len(dTemplate))

C19_Witness ==
    /\ dDone
    /\ dTemplate = <<DOLLAR, "0", "0">>
    /\ dMatch = <<<<"a", "b">>, <<"b">>>>
    /\ dOut = <<DOLLAR, "0", "0">>

(***************************************************************************)
(* Line endings of the text written on disk (checked under SpecOneFile).   *)
(***************************************************************************)
RECURSIVE BareLFToCRLF(_, _)
\* The text s, which follows the character prev, with every LF that does not
\* follow a CR replaced by CR LF.
BareLFToCRLF(s, prev) ==
    IF s = <<>> THEN <<>>
    ELSE (IF Head(s) = LF /\ prev # CR THEN <<CR, LF>> ELSE <<Head(s)>>)
         \o BareLFToCRLF(Tail(s), Head(s))

\* C18: the text handed to file.write is, for a CRLF file, the new text with
\* every bare LF (one that does not follow a CR) replaced by CR LF and nothing
\* else changed; for any other file it is the new text itself.
C18_OnlyBareLFConverted ==
    \A p \in Keys :
        (variant[p] = "disk" /\ pc[p] \in {"writing", "resolved"})
        => LET newText == NewContents(readResult[p].contents, results[p].matches,
                                      replaceText, options.isRegexp)
           IN  pending[p] = IF readResult[p].lineEndings = LINE_ENDINGS_CRLF
                            THEN BareLFToCRLF(newText, "")
                            ELSE newText

\* C18 for replacement texts that hold no CR: then every LF of the new text
\* is bare.
C18_HoldsWithoutCR ==
    (\A i \in 1..Len(replaceText) : replaceText[i] # CR) => C18_OnlyBareLFConverted

(***************************************************************************)
(* The on-disk operation against external modifications (SpecOneFile).     *)
(***************************************************************************)
\* C14: every write of the engine replaces content whose modification time,
\* at the moment of the write, is the captured timestamp.
C14_WritesOnlyUnchangedContent ==
    [][\A p \in Keys :
        (pc[p] = "writing" /\ pc'[p] = "resolved")
            => disk[p].mtime = results[p].timestamp]_vars

\* C14 without external modifications between the read and the write.
C14_HoldsWithoutExternal ==
    [][\A p \in Keys :
        (pc[p] = "writing" /\ pc'[p] = "resolved"
            /\ disk[p].mtime = readResult[p].timestamp)
            => disk[p].mtime = results[p].timestamp]_vars

(***************************************************************************)
(* The current document after a batch (checked under Spec).                *)
(***************************************************************************)
\* The keys with a checked match that no other such key precedes.
FirstChecked ==
    {p \in Keys :
        /\ \E i \in 1..Len(results[p].matches) : results[p].matches[i].isChecked
        /\ \A q \in Keys :
              (\E i \in 1..Len(results[q].matches) : results[q].matches[i].isChecked)
                  => PathRank(p) <= PathRank(q)}

\* C16: the current document changes only in the step that settles the batch
\* as a success, with forceFilesOpen set, when no document is current or the
\* current one is no key of the results or has no checked match; it then
\* becomes the open document of the first key, in comparePaths order, with a
\* checked match, if there is one and it is open. In every other step it is
\* unchanged.
C16_CurrentDocument ==
    [][LET succeeds == batch # "resolved" /\ batch' = "resolved"
           eligible == \/ currentDoc = NoCurrentDoc
                       \/ currentDoc \notin Keys
                       \/ \A i \in 1..Len(results[currentDoc].matches) :
                             ~results[currentDoc].matches[i].isChecked
       IN  IF /\ succeeds /\ options.forceFilesOpen /\ eligible
              /\ \E p \in FirstChecked : docs'[p] # NoDoc
           THEN currentDoc' \in FirstChecked
           ELSE currentDoc' = currentDoc]_vars

\* A successful batch with forceFilesOpen after which the current document is
\* "/B.js", the first key with a checked match, "/a.js" having none.
C16_Witness ==
    /\ batch = "resolved"
    /\ options.forceFilesOpen
    /\ ~hasCheckedMatches(results["/a.js"])
    /\ hasCheckedMatches(results["/B.js"])
    /\ hasCheckedMatches(results["/lib/a.js"])
    /\ currentDoc = "/B.js"

(***************************************************************************)
(* Settling of the batch.  Every promise of a collaborator (open, read,    *)
(* write) settles; SpecLive adds that to Spec as weak fairness of the      *)
(* completions.                                                            *)
(***************************************************************************)
Completion(p) ==
    \/ OpenDone(p) \/ OpenFail(p)
    \/ ReadDone(p) \/ ReadFail(p)
    \/ WriteDone(p) \/ WriteFail(p)

\* Three files, each with one match, checked or not; any of them open.
InitLive ==
    /\ DollarsIdle
    /\ InitStore
    /\ \E ms \in [AllPaths -> {<<MkMatch(BatchBytes, 0, 1, TRUE)>>,
                                <<MkMatch(BatchBytes, 0, 1, FALSE)>>}],
          openSet \in SUBSET AllPaths, ffo \in BOOLEAN :
            InitEngine(AllPaths, ConstFn(AllPaths, BatchBytes), ms, openSet,
                       <<"x", "y">>, [forceFilesOpen |-> ffo, isRegexp |-> FALSE],
                       NoCurrentDoc, 1)

SpecLive ==
    /\ InitLive
    /\ [][NextEngine]_vars
    /\ WF_vars(\E p \in DOMAIN results : Completion(p))

\* C15: once performReplacements has run, every key of the results it was
\* given (the files AllPaths) has an operation; the failure of one file's
\* operation leaves every other operation as it was; the batch is settled
\* exactly when every operation is, and a pending batch eventually settles.
C15_RunAllAggregateAll ==
    /\ [](batch # "none" =>
            /\ DOMAIN pc = AllPaths
            /\ \A p \in AllPaths : pc[p] # "idle"
            /\ BatchSettled <=> \A p \in AllPaths : Settled(pc[p]))
    /\ [][\A p \in DOMAIN pc \cap DOMAIN pc', q \in DOMAIN pc \cap DOMAIN pc' :
            (p # q /\ pc[p] # "rejected" /\ pc'[p] = "rejected" /\ batch = "pending")
                => pc'[q] = pc[q]]_vars
    /\ (batch = "pending") ~> BatchSettled

\* A file's operation ran on to its write, which failed, after another file's
\* operation had failed; the third file was written; the batch then settled
\* with the two errors.
C15_Witness ==
    /\ batch = "rejected"
    /\ Len(errors) = 2
    /\ errors[1].error = READ_ERROR
    /\ errors[2].error = WRITE_ERROR
    /\ \E p \in Keys : pc[p] = "resolved" /\ p \in written

(***************************************************************************)
(* performReplacements called again on the same results (SpecRerun).       *)
(***************************************************************************)
MaxRuns == 2

RerunReplaceTexts == {<<>>, <<"x", "y">>}

\* One file and MaxRuns calls of performReplacements with the same arguments.
InitRerun ==
    /\ DollarsIdle
    /\ InitStore
    /\ \E bytes \in FileBytes, open \in BOOLEAN, rText \in RerunReplaceTexts,
          ffo \in BOOLEAN :
         \E ms \in MatchLists(NormalizeText(bytes), MaxMatches) :
            InitEngine({OneFile}, ConstFn({OneFile}, bytes), ConstFn({OneFile}, ms),
                       IF open THEN {OneFile} ELSE {}, rText,
                       [forceFilesOpen |-> ffo, isRegexp |-> FALSE], NoCurrentDoc,
                       MaxRuns)

SpecRerun == InitRerun /\ [][NextEngine]_vars

\* The offsets and check marks of a match list, whatever its order.
OffsetsOf(matches) ==
    {<<matches[i].startOffset, matches[i].endOffset, matches[i].isChecked>> :
        i \in 1..Len(matches)}

\* C20: the engine never changes an entry's captured timestamp or offsets;
\* once a write of the engine has rewritten a file, no later step of the
\* engine changes the file's bytes, and every later read of the file by a
\* performReplacements on the same results ends that file's operation with
\* ERROR_FILE_CHANGED.
C20_ReplacedAtMostOnce ==
    [][\A p \in Keys :
        /\ results'[p].timestamp = results[p].timestamp
        /\ OffsetsOf(results'[p].matches) = OffsetsOf(results[p].matches)
        /\ p \in written =>
              /\ disk'[p] = disk[p] \/ nExternal' # nExternal
              /\ pc'[p] # "writing"
              /\ (readResult[p] = NoRead /\ readResult'[p] # NoRead) =>
                    /\ pc'[p] = "rejected"
                    /\ errors' = Append(errors, [item |-> p, error |-> ERROR_FILE_CHANGED])
                    /\ pending'[p] = <<>>]_vars

\* The first run wrote the file, the second read it and was rejected with
\* ERROR_FILE_CHANGED; nobody else touched the file, which has been written once.
C20_Witness ==
    \E p \in Keys :
        /\ p \in written
        /\ runsLeft = 0
        /\ batch = "rejected"
        /\ errors = <<[item |-> p, error |-> ERROR_FILE_CHANGED]>>
        /\ hasCheckedMatches(results[p])
        /\ nExternal = 0
        /\ disk[p].mtime = results[p].timestamp + 1

(***************************************************************************)
(* The SearchModel store: clear, addResultMatches, hasResults,             *)
(* countFilesMatches, getSortedFiles, fireChanged.                         *)
(***************************************************************************)
MaxAdds == 3
MaxEvents == 2

\* The (matches, timestamp) arguments of addResultMatches.
StoreAdds ==
    {[matches |-> <<"m1">>, timestamp |-> 1],
     [matches |-> <<"m1", "m2">>, timestamp |-> 2]}

\* The quickChange arguments of fireChanged.
QuickChanges == {FALSE}

\* What a handler reads from the model when a notification reaches it.
Snapshot(res, qi, ir, rt, sc, fm) ==
    [files |-> DOMAIN res, queryInfo |-> qi, isReplace |-> ir, replaceText |-> rt,
     scope |-> sc, foundMaximum |-> fm]

\* Mutant of ClearSeen: "clear" is triggered before the fields are reset.
ClearSeen_BeforeReset(before, after) == before

\* clear() triggers "clear" as its last statement: the handler sees the model
\* as the assignments left it.
ClearSeen(before, after) == after

\* Mutant of AddEntry: an entry that exists is kept.
AddEntry_KeepsExisting(res, fullpath, matches, timestamp) ==
    [p \in DOMAIN res \cup {fullpath} |->
        IF p \in DOMAIN res THEN res[p]
        ELSE [matches |-> matches, collapsed |-> FALSE, timestamp |-> timestamp]]

\* this.results[fullpath] = {matches: matches, collapsed: false, timestamp: timestamp}
AddEntry(res, fullpath, matches, timestamp) ==
    [p \in DOMAIN res \cup {fullpath} |->
        IF p = fullpath
        THEN [matches |-> matches, collapsed |-> FALSE, timestamp |-> timestamp]
        ELSE res[p]]

\* The own keys of this.results after the assignment: a new key comes last.
AddKey(keys, fullpath) ==
    IF \E i \in 1..Len(keys) : keys[i] = fullpath THEN keys ELSE Append(keys, fullpath)

\* hasResults()
hasResults(keys) == Len(keys) > 0

RECURSIVE CountFrom(_, _)
\* The _.forEach of countFilesMatches over the entries still to visit.
CountFrom(keys, res) ==
    IF keys = <<>> THEN [files |-> 0, matches |-> 0]
    ELSE LET rest == CountFrom(Tail(keys), res)
         IN  [files |-> rest.files + 1,
              matches |-> rest.matches + Len(res[Head(keys)].matches)]

\* Mutant of countFilesMatches: every file counts for one match.
countFilesMatches_OnePerFile(keys, res) == [files |-> Len(keys), matches |-> Len(keys)]

\* countFilesMatches()
countFilesMatches(keys, res) == CountFrom(keys, res)

\* Mutant of SortCompare: the selected entry is not looked at.
SortCompare_IgnoresSelected(selected, key1, key2) == comparePaths(key1, key2)

\* The comparator of getSortedFiles.
SortCompare(selected, key1, key2) ==
    IF selected = key1 THEN -1
    ELSE IF selected = key2 THEN 1
    ELSE comparePaths(key1, key2)

RECURSIVE InsertFile(_, _, _)
\* key put into the sorted sequence, after the elements that do not follow it.
InsertFile(sorted, key, selected) ==
    IF sorted = <<>> THEN <<key>>
    ELSE IF SortCompare(selected, key, Head(sorted)) < 0
         THEN <<key>> \o sorted
         ELSE <<Head(sorted)>> \o InsertFile(Tail(sorted), key, selected)

RECURSIVE SortFiles(_, _)
\* searchFiles.sort(comparator)
SortFiles(keys, selected) ==
    IF keys = <<>> THEN <<>>
    ELSE InsertFile(SortFiles(SubSeq(keys, 1, Len(keys) - 1), selected),
                    keys[Len(keys)], selected)

\* getSortedFiles()
getSortedFiles(keys, selected) == SortFiles(keys, selected)

NoCall == [op |-> "none", ret |-> "undefined"]

\* clear()
clear ==
    /\ Len(triggered) < MaxEvents
    /\ mResults' = <<>>
    /\ mKeys' = <<>>
    /\ queryInfo' = "null"
    /\ isReplace' = FALSE
    /\ mReplaceText' = "null"
    /\ scope' = "null"
    /\ foundMaximum' = FALSE
    /\ triggered' = Append(triggered,
          [type |-> "clear",
           seen |-> ClearSeen(
                      Snapshot(mResults, queryInfo, isReplace, mReplaceText, scope,
                               foundMaximum),
                      Snapshot(mResults', queryInfo', isReplace', mReplaceText',
                               scope', foundMaximum'))])
    /\ added' = <<>>
    /\ lastCall' = [op |-> "clear", ret |-> "undefined"]
    /\ UNCHANGED selectedEntry
    /\ UNCHANGED <<dvars, evars>>

\* addResultMatches(fullpath, matches, timestamp)
addResultMatches(fullpath, matches, timestamp) ==
    /\ Len(added) < MaxAdds
    /\ mResults' = AddEntry(mResults, fullpath, matches, timestamp)
    /\ mKeys' = AddKey(mKeys, fullpath)
    /\ added' = Append(added, [fullpath |-> fullpath, matches |-> matches,
                               timestamp |-> timestamp])
    /\ lastCall' = [op |-> "addResultMatches", ret |-> "undefined"]
    /\ UNCHANGED <<queryInfo, isReplace, mReplaceText, scope, foundMaximum,
                   selectedEntry, triggered>>
    /\ UNCHANGED <<dvars, evars>>

\* fireChanged(quickChange)
fireChanged(quickChange) ==
    /\ Len(triggered) < MaxEvents
    /\ triggered' = Append(triggered, [type |-> "change", arg |-> quickChange])
    /\ lastCall' = [op |-> "fireChanged", ret |-> "undefined"]
    /\ UNCHANGED <<mResults, mKeys, queryInfo, isReplace, mReplaceText, scope,
                   foundMaximum, selectedEntry, added>>
    /\ UNCHANGED <<dvars, evars>>

\* A call of hasResults().
CallHasResults ==
    /\ lastCall' = [op |-> "hasResults", ret |-> hasResults(mKeys)]
    /\ UNCHANGED <<mResults, mKeys, queryInfo, isReplace, mReplaceText, scope,
                   foundMaximum, selectedEntry, triggered, added>>
    /\ UNCHANGED <<dvars, evars>>

\* A call of countFilesMatches().
CallCountFilesMatches ==
    /\ lastCall' = [op |-> "countFilesMatches", ret |-> countFilesMatches(mKeys, mResults)]
    /\ UNCHANGED <<mResults, mKeys, queryInfo, isReplace, mReplaceText, scope,
                   foundMaximum, selectedEntry, triggered, added>>
    /\ UNCHANGED <<dvars, evars>>

\* A call of getSortedFiles().
CallGetSortedFiles ==
    /\ lastCall' = [op |-> "getSortedFiles", ret |-> getSortedFiles(mKeys, selectedEntry)]
    /\ UNCHANGED <<mResults, mKeys, queryInfo, isReplace, mReplaceText, scope,
                   foundMaximum, selectedEntry, triggered, added>>
    /\ UNCHANGED <<dvars, evars>>

\* A search assigns the public fields of the model for its query, on the
\* model it has just cleared.
AssignQuery ==
    /\ lastCall.op \in {"new", "clear"}
    /\ queryInfo = "null"
    /\ queryInfo' = "query"
    /\ isReplace' = TRUE
    /\ mReplaceText' = "text"
    /\ scope' = "scope"
    /\ foundMaximum' = TRUE
    /\ lastCall' = NoCall
    /\ UNCHANGED <<mResults, mKeys, selectedEntry, triggered, added>>
    /\ UNCHANGED <<dvars, evars>>

\* The view assigns _selectedEntry.
SelectEntry(fullpath) ==
    /\ selectedEntry # fullpath
    /\ selectedEntry' = fullpath
    /\ lastCall' = NoCall
    /\ UNCHANGED <<mResults, mKeys, queryInfo, isReplace, mReplaceText, scope,
                   foundMaximum, triggered, added>>
    /\ UNCHANGED <<dvars, evars>>

NextStore ==
    \/ clear
    \/ \E fullpath \in AllPaths, a \in StoreAdds :
            addResultMatches(fullpath, a.matches, a.timestamp)
    \/ \E quickChange \in QuickChanges : fireChanged(quickChange)
    \/ CallHasResults
    \/ CallCountFilesMatches
    \/ CallGetSortedFiles
    \/ AssignQuery
    \/ \E fullpath \in AllPaths : SelectEntry(fullpath)

InitStoreSpec ==
    /\ DollarsIdle
    /\ EngineIdle
    /\ InitStore

SpecStore == InitStoreSpec /\ [][NextStore]_vars

(***************************************************************************)
(* Properties of the store (checked under SpecStore).                      *)
(***************************************************************************)
\* The paths added since the last clear().
AddedPaths == {added[i].fullpath : i \in 1..Len(added)}

\* The most recent addResultMatches call for a path since the last clear().
LastAdded(fullpath) ==
    LET last == CHOOSE i \in 1..Len(added) :
                    /\ added[i].fullpath = fullpath
                    /\ \A j \in (i + 1)..Len(added) : added[j].fullpath # fullpath
    IN  added[last]

RECURSIVE SumOfLastAdded(_)
\* The sum, over a set of added paths, of the lengths of their last match lists.
SumOfLastAdded(paths) ==
    IF paths = {} THEN 0
    ELSE LET p == CHOOSE q \in paths : TRUE
         IN  Len(LastAdded(p).matches) + SumOfLastAdded(paths \ {p})

\* C11: right after clear() the store has no results; hasResults() returns
\* true exactly when a path was added since the last clear();
\* countFilesMatches() returns the number of distinct paths added since the
\* last clear() and the sum of the lengths of the match lists last added for
\* them.
C11_StoreCounts ==
    /\ lastCall.op = "clear" => ~hasResults(mKeys)
    /\ lastCall.op = "hasResults" => (lastCall.ret <=> added # <<>>)
    /\ lastCall.op = "countFilesMatches" =>
          /\ lastCall.ret.files = Cardinality(AddedPaths)
          /\ lastCall.ret.matches = SumOfLastAdded(AddedPaths)

\* countFilesMatches() after three adds, the third replacing the two matches
\* of the first's path by one match: 2 files, 3 matches.
C11_Witness ==
    /\ lastCall.op = "countFilesMatches"
    /\ Len(added) = 3
    /\ added[1].fullpath = added[3].fullpath
    /\ added[2].fullpath # added[1].fullpath
    /\ Len(added[1].matches) = 2
    /\ Len(added[2].matches) = 2
    /\ Len(added[3].matches) = 1
    /\ lastCall.ret = [files |-> 2, matches |-> 3]

\* C12: getSortedFiles() returns each key of the store once; the selected
\* entry, when it is a key, comes first, and the other keys follow in
\* comparePaths order; a call that follows a call returns the same sequence.
C12_SortedFiles ==
    /\ [](lastCall.op = "getSortedFiles" =>
            LET sorted == lastCall.ret
            IN  /\ Len(sorted) = Cardinality(DOMAIN mResults)
                /\ {sorted[i] : i \in 1..Len(sorted)} = DOMAIN mResults
                /\ selectedEntry \in DOMAIN mResults => sorted[1] = selectedEntry
                /\ \A i \in 1..Len(sorted), j \in 1..Len(sorted) :
                      (i < j /\ sorted[i] # selectedEntry /\ sorted[j] # selectedEntry)
                          => PathRank(sorted[i]) < PathRank(sorted[j]))
    /\ [][(lastCall.op = "getSortedFiles" /\ lastCall'.op = "getSortedFiles")
            => lastCall'.ret = lastCall.ret]_vars

\* getSortedFiles() on three files added in another order, the selected one
\* being the last in comparePaths order.
C12_Witness ==
    /\ lastCall.op = "getSortedFiles"
    /\ mKeys = <<"/B.js", "/lib/a.js", "/a.js">>
    /\ selectedEntry = "/lib/a.js"
    /\ lastCall.ret = <<"/lib/a.js", "/a.js", "/B.js">>

\* C13: a step of the store that keeps a path in the store keeps the path's
\* captured timestamp.
C13_TimestampNeverChanges ==
    [][\A p \in DOMAIN mResults \cap DOMAIN mResults' :
          mResults'[p].timestamp = mResults[p].timestamp]_vars

\* C13, amended: the captured timestamp of a path in the store is the one
\* given by the most recent addResultMatches for that path since the last
\* clear(); it changes only in an addResultMatches for that path, and in no
\* hasResults, countFilesMatches, getSortedFiles or fireChanged.
C13_TimestampOfLastAdd ==
    /\ [](\A p \in DOMAIN mResults :
            /\ p \in AddedPaths
            /\ mResults[p].timestamp = LastAdded(p).timestamp)
    /\ [][\A p \in DOMAIN mResults \cap DOMAIN mResults' :
            mResults'[p].timestamp # mResults[p].timestamp
                => /\ lastCall'.op = "addResultMatches"
                   /\ Len(added') = Len(added) + 1
                   /\ added'[Len(added')].fullpath = p
                   /\ added'[Len(added')].timestamp = mResults'[p].timestamp]_vars

\* A path added with timestamp 1 and added again with timestamp 2, then the
\* four other operations: the store holds timestamp 2.
C13_Witness ==
    /\ Len(added) = 2
    /\ added[1].fullpath = added[2].fullpath
    /\ added[1].timestamp = 1
    /\ added[2].timestamp = 2
    /\ mResults[added[1].fullpath].timestamp = 2
    /\ lastCall.op = "getSortedFiles"
    /\ Len(triggered) = 1 /\ triggered[1].type = "change"

\* The model as clear() leaves it.
EmptySnapshot ==
    [files |-> {}, queryInfo |-> "null", isReplace |-> FALSE, replaceText |-> "null",
     scope |-> "null", foundMaximum |-> FALSE]

\* C17: addResultMatches triggers nothing; fireChanged triggers one "change"
\* and nothing else; clear() triggers one "clear" and nothing else, whose
\* handler sees no file, a null query, isReplace false, a null replacement
\* text, a null scope and foundMaximum false; no other step triggers anything.
C17_Notifications ==
    [][/\ lastCall'.op = "fireChanged" =>
            /\ Len(triggered') = Len(triggered) + 1
            /\ SubSeq(triggered', 1, Len(triggered)) = triggered
            /\ triggered'[Len(triggered')].type = "change"
       /\ lastCall'.op = "clear" =>
            /\ Len(triggered') = Len(triggered) + 1
            /\ SubSeq(triggered', 1, Len(triggered)) = triggered
            /\ triggered'[Len(triggered')].type = "clear"
            /\ triggered'[Len(triggered')].seen = EmptySnapshot
            /\ Snapshot(mResults', queryInfo', isReplace', mReplaceText', scope',
                        foundMaximum') = EmptySnapshot
       /\ lastCall'.op \notin {"fireChanged", "clear"} => triggered' = triggered]_vars

\* A "change" and then a "clear" have been triggered, by a fireChanged and a
\* clear() that followed it.
C17_Witness ==
    /\ lastCall.op = "clear"
    /\ Len(triggered) = 2
    /\ triggered[1].type = "change"
    /\ triggered[2].type = "clear"
    /\ triggered[2].seen = EmptySnapshot
    /\ selectedEntry # "undefined"

====
